---- MODULE Spec2Model ----
(***************************************************************************)
(* Proxy resolution core of the SDK (src/_proxy.ts): NO_PROXY bypass       *)
(* matching, the environment reader, the config normaliser, the priority   *)
(* resolver and the proxy agent factory.                                   *)
(*                                                                         *)
(* A JavaScript string is modelled as a sequence of one-character strings, *)
(* so that split, trim, toLowerCase, startsWith, endsWith, substring and   *)
(* template concatenation are computed and not assumed.                    *)
(***************************************************************************)
EXTENDS Integers, Sequences, FiniteSets, TLC

VARIABLES
    hasProcessEnv,   \* typeof process !== 'undefined' && process.env != null
    env,             \* process.env: variable name -> JS value (undefined or string)
    undiciAvailable, \* whether `await import('undici')` resolves in this runtime
    call,            \* the last synchronous call made into the core
    ret,             \* what that call returned (or threw)
    agentCalls,      \* createProxyAgent invocations: id -> [pc, proxyUrl, ret, agent]
    agents,          \* ProxyAgent instances constructed so far: instance -> proxy URL
    warnings,        \* console.warn emissions: invocation id -> count
    history          \* completed calls a caller kept: [env, call, ret] in order

vars == <<hasProcessEnv, env, undiciAvailable, call, ret, agentCalls, agents, warnings,
          history>>

-----------------------------------------------------------------------------
(* Bounds *)

MaxNoProxyLen == 3   \* longest NO_PROXY value enumerated in SpecBypass
MaxHostLen == 3      \* longest hostname enumerated in SpecBypass
MaxAgentCalls == 3   \* createProxyAgent invocations per behaviour in SpecAgent
MaxHistory == 3      \* completed calls kept per behaviour in SpecSequence

-----------------------------------------------------------------------------
(* JavaScript strings *)

UpperChars == <<"A","B","C","D","E","F","G","H","I","J","K","L","M",
                "N","O","P","Q","R","S","T","U","V","W","X","Y","Z">>
LowerChars == <<"a","b","c","d","e","f","g","h","i","j","k","l","m",
                "n","o","p","q","r","s","t","u","v","w","x","y","z">>
DigitChars == <<"0","1","2","3","4","5","6","7","8","9">>

Range(f) == {f[i] : i \in DOMAIN f}

\* The strings of length at most n over the character set cs.
RECURSIVE StrsUpTo(_, _)
StrsUpTo(cs, n) ==
    IF n = 0 THEN {<<>>}
    ELSE LET shorter == StrsUpTo(cs, n - 1)
         IN  shorter \cup {Append(s, c) : s \in shorter, c \in cs}

UpperSet == Range(UpperChars)
LowerSet == Range(LowerChars)
DigitSet == Range(DigitChars)

\* The lower-case letter of each upper-case letter.
LowerOf == [c \in UpperSet |-> LowerChars[CHOOSE i \in DOMAIN UpperChars : UpperChars[i] = c]]

ToLowerChar(c) == IF c \in UpperSet THEN LowerOf[c] ELSE c

\* String.prototype.toLowerCase
ToLowerCase(s) == [i \in 1..Len(s) |-> ToLowerChar(s[i])]

\* String.prototype.startsWith
StartsWith(s, p) ==
    /\ Len(p) <= Len(s)
    /\ \A i \in 1..Len(p) : s[i] = p[i]

\* String.prototype.endsWith
EndsWith(s, p) ==
    /\ Len(p) <= Len(s)
    /\ \A i \in 1..Len(p) : s[Len(s) - Len(p) + i] = p[i]

\* String.prototype.substring(from), from counted from 0
Substring(s, from) ==
    IF from >= Len(s) THEN <<>> ELSE SubSeq(s, from + 1, Len(s))

IsSpace(c) == c \in {" ", "\t"}

\* String.prototype.trim
RECURSIVE TrimStart(_)
TrimStart(s) ==
    IF s # <<>> /\ IsSpace(s[1]) THEN TrimStart(Tail(s)) ELSE s

RECURSIVE TrimEnd(_)
TrimEnd(s) ==
    IF s # <<>> /\ IsSpace(s[Len(s)]) THEN TrimEnd(SubSeq(s, 1, Len(s) - 1)) ELSE s

Trim(s) == TrimEnd(TrimStart(s))

\* Index of the first character of s that is in cs, 0 when there is none.
IndexOfAny(s, cs) ==
    IF \E i \in 1..Len(s) : s[i] \in cs
    THEN CHOOSE i \in 1..Len(s) : s[i] \in cs /\ \A j \in 1..(i - 1) : s[j] \notin cs
    ELSE 0

\* Index of the last character of s that is in cs, 0 when there is none.
LastIndexOfAny(s, cs) ==
    IF \E i \in 1..Len(s) : s[i] \in cs
    THEN CHOOSE i \in 1..Len(s) : s[i] \in cs /\ \A j \in (i + 1)..Len(s) : s[j] \notin cs
    ELSE 0

\* String.prototype.split(','): the pieces between commas, empty ones kept.
RECURSIVE SplitComma(_)
SplitComma(s) ==
    LET i == IndexOfAny(s, {","})
    IN  IF i = 0 THEN <<s>>
        ELSE <<SubSeq(s, 1, i - 1)>> \o SplitComma(SubSeq(s, i + 1, Len(s)))

\* Decimal rendering of a non-negative integer inside a template literal.
RECURSIVE NumberToString(_)
NumberToString(n) ==
    IF n < 10 THEN <<DigitChars[n + 1]>>
    ELSE Append(NumberToString(n \div 10), DigitChars[(n % 10) + 1])

-----------------------------------------------------------------------------
(* JavaScript values: undefined, a boolean, a string, or a ProxyConfig object *)

Undefined == [kind |-> "undefined"]
False == [kind |-> "false"]
True == [kind |-> "true"]
Bool(b) == IF b THEN True ELSE False
Str(s) == [kind |-> "string", val |-> s]
Obj(c) == [kind |-> "object", cfg |-> c]
\* A thrown TypeError (ERR_INVALID_URL), as the completion of a call.
ThrowInvalidURL == [kind |-> "throw", error |-> "TypeError: Invalid URL"]

\* ToBoolean: undefined, false and the empty string are falsy.
Truthy(v) ==
    \/ v.kind = "object"
    \/ v.kind = "string" /\ v.val # <<>>

\* a || b
Or(a, b) == IF Truthy(a) THEN a ELSE b

-----------------------------------------------------------------------------
(* new URL(targetUrl): the parts of the WHATWG parser the core reads *)

SpecialSchemes == { <<"h","t","t","p">>, <<"h","t","t","p","s">>,
                    <<"f","t","p">>, <<"w","s">>, <<"w","s","s">> }

IsAlpha(c) == c \in UpperSet \/ c \in LowerSet
IsDigit(c) == c \in DigitSet

\* A scheme is a letter followed by letters, digits, "+", "-" or ".".
IsScheme(s) ==
    /\ s # <<>>
    /\ IsAlpha(s[1])
    /\ \A i \in 1..Len(s) : IsAlpha(s[i]) \/ IsDigit(s[i]) \/ s[i] \in {"+", "-", "."}

\* Characters that end the authority of a URL.
AuthorityEnd == {"/", "?", "#"}

\* Characters a host may not contain.
ForbiddenHostChars == {" ", "\t", "#", "/", ":", "<", ">", "?", "@", "[", "\\", "]", "^", "|", "%"}

RECURSIVE SkipSlashes(_)
SkipSlashes(s) ==
    IF s # <<>> /\ s[1] \in {"/", "\\"} THEN SkipSlashes(Tail(s)) ELSE s

\* The authority "[userinfo@]host[:port]" split into its host and port texts.
HostPort(authority) ==
    LET at == LastIndexOfAny(authority, {"@"})
        hp == SubSeq(authority, at + 1, Len(authority))
        colon == IndexOfAny(hp, {":"})
    IN  IF colon = 0
        THEN [host |-> hp, port |-> <<>>]
        ELSE [host |-> SubSeq(hp, 1, colon - 1), port |-> SubSeq(hp, colon + 1, Len(hp))]

InvalidUrl == [ok |-> FALSE, protocol |-> <<>>, hostname |-> <<>>]

\* The result of new URL(s): ok = FALSE stands for the TypeError it throws;
\* protocol is the lower-cased scheme with its ":", hostname is lower-cased
\* for the special schemes.
ParseURL(s) ==
    LET colon == IndexOfAny(s, {":"})
        scheme == ToLowerCase(SubSeq(s, 1, colon - 1))
        rest == SubSeq(s, colon + 1, Len(s))
    IN  IF colon = 0 \/ ~IsScheme(scheme) THEN InvalidUrl
        ELSE IF scheme \in SpecialSchemes
        THEN LET after == SkipSlashes(rest)
                 stop == IndexOfAny(after, AuthorityEnd)
                 authority == IF stop = 0 THEN after ELSE SubSeq(after, 1, stop - 1)
                 hp == HostPort(authority)
             IN  IF \/ hp.host = <<>>
                    \/ \E i \in 1..Len(hp.host) : hp.host[i] \in ForbiddenHostChars
                    \/ \E i \in 1..Len(hp.port) : ~IsDigit(hp.port[i])
                 THEN InvalidUrl
                 ELSE [ok |-> TRUE, protocol |-> Append(scheme, ":"),
                       hostname |-> ToLowerCase(hp.host)]
        ELSE IF StartsWith(rest, <<"/", "/">>)
        THEN LET after == SubSeq(rest, 3, Len(rest))
                 stop == IndexOfAny(after, AuthorityEnd)
                 authority == IF stop = 0 THEN after ELSE SubSeq(after, 1, stop - 1)
                 hp == HostPort(authority)
             IN  IF \/ \E i \in 1..Len(hp.host) : hp.host[i] \in ForbiddenHostChars
                    \/ \E i \in 1..Len(hp.port) : ~IsDigit(hp.port[i])
                 THEN InvalidUrl
                 ELSE [ok |-> TRUE, protocol |-> Append(scheme, ":"), hostname |-> hp.host]
        ELSE [ok |-> TRUE, protocol |-> Append(scheme, ":"), hostname |-> <<>>]

-----------------------------------------------------------------------------
(* The core: src/_proxy.ts *)

EnvNames == {"HTTPS_PROXY", "https_proxy", "HTTP_PROXY", "http_proxy", "NO_PROXY", "no_proxy"}

\* process.env of a process that has set none of the proxy variables.
EmptyEnv == [n \in EnvNames |-> Undefined]

\* isNodeEnvironment(): node is whether process and process.env exist.
IsNodeEnvironment(node) == node

\* getEnvVar(name) against process.env = e.
GetEnvVar(e, node, name) ==
    IF ~IsNodeEnvironment(node) THEN Undefined ELSE e[name]

\* Mutant of PatternMatches: the wildcard branch strips "*." (substring(2))
\* instead of "*", so that `*.d` also matches the bare host d.
PatternMatches_StripsStarDot(normalizedHostname, pattern) ==
    IF pattern = <<>> THEN FALSE
    ELSE LET normalizedPattern == ToLowerCase(pattern)
         IN  \/ normalizedHostname = normalizedPattern
             \/ IF StartsWith(normalizedPattern, <<"*">>)
                THEN EndsWith(normalizedHostname, Substring(normalizedPattern, 2))
                ELSE /\ StartsWith(normalizedPattern, <<".">>)
                     /\ EndsWith(normalizedHostname, normalizedPattern)
             \/ EndsWith(normalizedHostname, <<".">> \o normalizedPattern)

\* Mutant of PatternMatches: the wildcard branch matches on a label boundary
\* only (the suffix must follow a dot or be the whole hostname).
PatternMatches_LabelBoundary(normalizedHostname, pattern) ==
    IF pattern = <<>> THEN FALSE
    ELSE LET normalizedPattern == ToLowerCase(pattern)
             domain == Substring(normalizedPattern, 1)
         IN  \/ normalizedHostname = normalizedPattern
             \/ IF StartsWith(normalizedPattern, <<"*">>)
                THEN \/ normalizedHostname = domain
                     \/ EndsWith(normalizedHostname, <<".">> \o domain)
                     \/ StartsWith(domain, <<".">>) /\ EndsWith(normalizedHostname, domain)
                ELSE /\ StartsWith(normalizedPattern, <<".">>)
                     /\ EndsWith(normalizedHostname, normalizedPattern)
             \/ EndsWith(normalizedHostname, <<".">> \o normalizedPattern)

\* Mutant of PatternMatches: the last test compares with the pattern itself
\* instead of "." + pattern.
PatternMatches_BareSuffix(normalizedHostname, pattern) ==
    IF pattern = <<>> THEN FALSE
    ELSE LET normalizedPattern == ToLowerCase(pattern)
         IN  \/ normalizedHostname = normalizedPattern
             \/ IF StartsWith(normalizedPattern, <<"*">>)
                THEN EndsWith(normalizedHostname, Substring(normalizedPattern, 1))
                ELSE /\ StartsWith(normalizedPattern, <<".">>)
                     /\ EndsWith(normalizedHostname, normalizedPattern)
             \/ EndsWith(normalizedHostname, normalizedPattern)

\* Mutant of PatternMatches: a leading-dot pattern .D also matches the bare
\* host D.
PatternMatches_DotMatchesBare(normalizedHostname, pattern) ==
    IF pattern = <<>> THEN FALSE
    ELSE LET normalizedPattern == ToLowerCase(pattern)
         IN  \/ normalizedHostname = normalizedPattern
             \/ IF StartsWith(normalizedPattern, <<"*">>)
                THEN EndsWith(normalizedHostname, Substring(normalizedPattern, 1))
                ELSE /\ StartsWith(normalizedPattern, <<".">>)
                     /\ \/ EndsWith(normalizedHostname, normalizedPattern)
                        \/ normalizedHostname = Substring(normalizedPattern, 1)
             \/ EndsWith(normalizedHostname, <<".">> \o normalizedPattern)

\* Mutant of PatternMatches: no exact-equality test, so a pattern matches only
\* through its suffix tests.
PatternMatches_NoExactMatch(normalizedHostname, pattern) ==
    IF pattern = <<>> THEN FALSE
    ELSE LET normalizedPattern == ToLowerCase(pattern)
         IN  \/ IF StartsWith(normalizedPattern, <<"*">>)
                THEN EndsWith(normalizedHostname, Substring(normalizedPattern, 1))
                ELSE /\ StartsWith(normalizedPattern, <<".">>)
                     /\ EndsWith(normalizedHostname, normalizedPattern)
             \/ EndsWith(normalizedHostname, <<".">> \o normalizedPattern)

\* Mutant of PatternMatches: an empty entry is not skipped.
PatternMatches_EmptyNotSkipped(normalizedHostname, pattern) ==
    LET normalizedPattern == ToLowerCase(pattern)
    IN  \/ normalizedHostname = normalizedPattern
        \/ IF StartsWith(normalizedPattern, <<"*">>)
           THEN EndsWith(normalizedHostname, Substring(normalizedPattern, 1))
           ELSE /\ StartsWith(normalizedPattern, <<".">>)
                /\ EndsWith(normalizedHostname, normalizedPattern)
        \/ EndsWith(normalizedHostname, <<".">> \o normalizedPattern)

\* One iteration of the loop of shouldBypassProxy: whether `pattern` (already
\* trimmed) makes the loop return true for normalizedHostname.
PatternMatches(normalizedHostname, pattern) ==
    IF pattern = <<>> THEN FALSE
    ELSE LET normalizedPattern == ToLowerCase(pattern)
         IN  \/ normalizedHostname = normalizedPattern
             \/ IF StartsWith(normalizedPattern, <<"*">>)
                THEN EndsWith(normalizedHostname, Substring(normalizedPattern, 1))
                ELSE /\ StartsWith(normalizedPattern, <<".">>)
                     /\ EndsWith(normalizedHostname, normalizedPattern)
             \/ EndsWith(normalizedHostname, <<".">> \o normalizedPattern)

\* noProxy.split(',').map(s => s.trim())
NoProxyPatterns(noProxy) ==
    LET pieces == SplitComma(noProxy)
    IN  [i \in 1..Len(pieces) |-> Trim(pieces[i])]

\* Mutant of ShouldBypassProxy: the bypass list is read on the first call and
\* cached, so later calls use the NO_PROXY of the first call.
ShouldBypassProxy_CachedList(e, node, hostname) ==
    LET cached == IF history = <<>> THEN e ELSE history[1].env
        noProxy == Or(GetEnvVar(cached, node, "NO_PROXY"), GetEnvVar(cached, node, "no_proxy"))
    IN  IF ~Truthy(noProxy) THEN FALSE
        ELSE LET patterns == NoProxyPatterns(noProxy.val)
                 normalizedHostname == ToLowerCase(hostname)
             IN  \E i \in 1..Len(patterns) : PatternMatches(normalizedHostname, patterns[i])

\* Mutant of ShouldBypassProxy: the hostname is compared as given, only the
\* patterns are lower-cased.
ShouldBypassProxy_HostnameAsGiven(e, node, hostname) ==
    LET noProxy == Or(GetEnvVar(e, node, "NO_PROXY"), GetEnvVar(e, node, "no_proxy"))
    IN  IF ~Truthy(noProxy) THEN FALSE
        ELSE LET patterns == NoProxyPatterns(noProxy.val)
             IN  \E i \in 1..Len(patterns) : PatternMatches(hostname, patterns[i])

\* Mutant of ShouldBypassProxy: only the first entry of the list is tested.
ShouldBypassProxy_FirstEntryOnly(e, node, hostname) ==
    LET noProxy == Or(GetEnvVar(e, node, "NO_PROXY"), GetEnvVar(e, node, "no_proxy"))
    IN  IF ~Truthy(noProxy) THEN FALSE
        ELSE LET patterns == NoProxyPatterns(noProxy.val)
                 normalizedHostname == ToLowerCase(hostname)
             IN  PatternMatches(normalizedHostname, patterns[1])

\* shouldBypassProxy(hostname)
ShouldBypassProxy(e, node, hostname) ==
    LET noProxy == Or(GetEnvVar(e, node, "NO_PROXY"), GetEnvVar(e, node, "no_proxy"))
    IN  IF ~Truthy(noProxy) THEN FALSE
        ELSE LET patterns == NoProxyPatterns(noProxy.val)
                 normalizedHostname == ToLowerCase(hostname)
             IN  \E i \in 1..Len(patterns) : PatternMatches(normalizedHostname, patterns[i])

\* Mutant of GetProxyFromEnvironment: the NO_PROXY check is consulted only
\* when the protocol lookup found no proxy.
GetProxyFromEnvironment_BypassLast(e, node, targetUrl) ==
    IF ~IsNodeEnvironment(node) THEN Undefined
    ELSE LET url == ParseURL(targetUrl)
             found == IF url.protocol = <<"h","t","t","p","s",":">>
                      THEN Or(GetEnvVar(e, node, "HTTPS_PROXY"),
                              Or(GetEnvVar(e, node, "https_proxy"),
                                 Or(GetEnvVar(e, node, "HTTP_PROXY"),
                                    GetEnvVar(e, node, "http_proxy"))))
                      ELSE IF url.protocol = <<"h","t","t","p",":">>
                      THEN Or(GetEnvVar(e, node, "HTTP_PROXY"), GetEnvVar(e, node, "http_proxy"))
                      ELSE Undefined
         IN  IF ~url.ok THEN ThrowInvalidURL
             ELSE IF Truthy(found) THEN found
             ELSE IF ShouldBypassProxy(e, node, url.hostname) THEN Undefined
             ELSE found

\* Mutant of GetProxyFromEnvironment: for https the upper-case names are tried
\* before the lower-case ones (letter case outranks protocol specificity).
GetProxyFromEnvironment_UpperFirst(e, node, targetUrl) ==
    IF ~IsNodeEnvironment(node) THEN Undefined
    ELSE LET url == ParseURL(targetUrl)
         IN  IF ~url.ok THEN ThrowInvalidURL
             ELSE IF ShouldBypassProxy(e, node, url.hostname) THEN Undefined
             ELSE IF url.protocol = <<"h","t","t","p","s",":">>
             THEN Or(GetEnvVar(e, node, "HTTPS_PROXY"),
                     Or(GetEnvVar(e, node, "HTTP_PROXY"),
                        Or(GetEnvVar(e, node, "https_proxy"),
                           GetEnvVar(e, node, "http_proxy"))))
             ELSE IF url.protocol = <<"h","t","t","p",":">>
             THEN Or(GetEnvVar(e, node, "HTTP_PROXY"), GetEnvVar(e, node, "http_proxy"))
             ELSE Undefined

\* Mutant of GetProxyFromEnvironment: an http target falls back to the
\* HTTPS-specific variables when the HTTP ones give nothing.
GetProxyFromEnvironment_HttpFallsBackToHttps(e, node, targetUrl) ==
    IF ~IsNodeEnvironment(node) THEN Undefined
    ELSE LET url == ParseURL(targetUrl)
         IN  IF ~url.ok THEN ThrowInvalidURL
             ELSE IF ShouldBypassProxy(e, node, url.hostname) THEN Undefined
             ELSE IF url.protocol = <<"h","t","t","p","s",":">>
             THEN Or(GetEnvVar(e, node, "HTTPS_PROXY"),
                     Or(GetEnvVar(e, node, "https_proxy"),
                        Or(GetEnvVar(e, node, "HTTP_PROXY"),
                           GetEnvVar(e, node, "http_proxy"))))
             ELSE IF url.protocol = <<"h","t","t","p",":">>
             THEN Or(GetEnvVar(e, node, "HTTP_PROXY"),
                     Or(GetEnvVar(e, node, "http_proxy"),
                        Or(GetEnvVar(e, node, "HTTPS_PROXY"),
                           GetEnvVar(e, node, "https_proxy"))))
             ELSE Undefined

\* Mutant of GetProxyFromEnvironment: a target URL that does not parse is
\* treated as "no proxy" instead of failing the call.
GetProxyFromEnvironment_SwallowsInvalidUrl(e, node, targetUrl) ==
    IF ~IsNodeEnvironment(node) THEN Undefined
    ELSE LET url == ParseURL(targetUrl)
         IN  IF ~url.ok THEN Undefined
             ELSE IF ShouldBypassProxy(e, node, url.hostname) THEN Undefined
             ELSE IF url.protocol = <<"h","t","t","p","s",":">>
             THEN Or(GetEnvVar(e, node, "HTTPS_PROXY"),
                     Or(GetEnvVar(e, node, "https_proxy"),
                        Or(GetEnvVar(e, node, "HTTP_PROXY"),
                           GetEnvVar(e, node, "http_proxy"))))
             ELSE IF url.protocol = <<"h","t","t","p",":">>
             THEN Or(GetEnvVar(e, node, "HTTP_PROXY"), GetEnvVar(e, node, "http_proxy"))
             ELSE Undefined

\* Mutant of GetProxyFromEnvironment: a target of any other scheme uses the
\* HTTP variables too.
GetProxyFromEnvironment_OtherSchemesUseHttp(e, node, targetUrl) ==
    IF ~IsNodeEnvironment(node) THEN Undefined
    ELSE LET url == ParseURL(targetUrl)
         IN  IF ~url.ok THEN ThrowInvalidURL
             ELSE IF ShouldBypassProxy(e, node, url.hostname) THEN Undefined
             ELSE IF url.protocol = <<"h","t","t","p","s",":">>
             THEN Or(GetEnvVar(e, node, "HTTPS_PROXY"),
                     Or(GetEnvVar(e, node, "https_proxy"),
                        Or(GetEnvVar(e, node, "HTTP_PROXY"),
                           GetEnvVar(e, node, "http_proxy"))))
             ELSE Or(GetEnvVar(e, node, "HTTP_PROXY"), GetEnvVar(e, node, "http_proxy"))

\* Mutant of GetProxyFromEnvironment: the target URL is parsed before the
\* isNodeEnvironment() test.
GetProxyFromEnvironment_ParsesFirst(e, node, targetUrl) ==
    LET url == ParseURL(targetUrl)
    IN  IF ~url.ok THEN ThrowInvalidURL
        ELSE IF ~IsNodeEnvironment(node) THEN Undefined
        ELSE IF ShouldBypassProxy(e, node, url.hostname) THEN Undefined
        ELSE IF url.protocol = <<"h","t","t","p","s",":">>
        THEN Or(GetEnvVar(e, node, "HTTPS_PROXY"),
                Or(GetEnvVar(e, node, "https_proxy"),
                   Or(GetEnvVar(e, node, "HTTP_PROXY"),
                      GetEnvVar(e, node, "http_proxy"))))
        ELSE IF url.protocol = <<"h","t","t","p",":">>
        THEN Or(GetEnvVar(e, node, "HTTP_PROXY"), GetEnvVar(e, node, "http_proxy"))
        ELSE Undefined

\* getProxyFromEnvironment(targetUrl)
GetProxyFromEnvironment(e, node, targetUrl) ==
    IF ~IsNodeEnvironment(node) THEN Undefined
    ELSE LET url == ParseURL(targetUrl)
         IN  IF ~url.ok THEN ThrowInvalidURL
             ELSE IF ShouldBypassProxy(e, node, url.hostname) THEN Undefined
             ELSE IF url.protocol = <<"h","t","t","p","s",":">>
             THEN Or(GetEnvVar(e, node, "HTTPS_PROXY"),
                     Or(GetEnvVar(e, node, "https_proxy"),
                        Or(GetEnvVar(e, node, "HTTP_PROXY"),
                           GetEnvVar(e, node, "http_proxy"))))
             ELSE IF url.protocol = <<"h","t","t","p",":">>
             THEN Or(GetEnvVar(e, node, "HTTP_PROXY"), GetEnvVar(e, node, "http_proxy"))
             ELSE Undefined

\* Mutant of ProxyConfigToUrl: the credentials are not followed by "@".
ProxyConfigToUrl_NoAuthSeparator(config) ==
    LET protocol == Or(config.protocol, Str(<<"h","t","t","p">>))
        auth == IF Truthy(config.auth) THEN config.auth.val ELSE <<>>
    IN  Str(protocol.val \o <<":","/","/">> \o auth \o config.host
            \o <<":">> \o NumberToString(config.port))

\* proxyConfigToUrl(config)
ProxyConfigToUrl(config) ==
    LET protocol == Or(config.protocol, Str(<<"h","t","t","p">>))
        auth == IF Truthy(config.auth) THEN Append(config.auth.val, "@") ELSE <<>>
    IN  Str(protocol.val \o <<":","/","/">> \o auth \o config.host
            \o <<":">> \o NumberToString(config.port))

\* Mutant of ResolveProxyUrl: `proxyOption === false` is not tested first, so
\* false falls through to the environment like an absent option.
ResolveProxyUrl_FalseFallsThrough(e, node, targetUrl, proxyOption) ==
    IF proxyOption.kind = "string" THEN proxyOption
    ELSE IF proxyOption.kind = "object" THEN ProxyConfigToUrl(proxyOption.cfg)
    ELSE GetProxyFromEnvironment(e, node, targetUrl)

\* Mutant of ResolveProxyUrl: the bypass list is honoured for an explicit option
\* too.
ResolveProxyUrl_BypassExplicit(e, node, targetUrl, proxyOption) ==
    IF proxyOption.kind = "false" THEN Undefined
    ELSE IF /\ proxyOption.kind \in {"string", "object"}
            /\ ParseURL(targetUrl).ok
            /\ ShouldBypassProxy(e, node, ParseURL(targetUrl).hostname)
    THEN Undefined
    ELSE IF proxyOption.kind = "string" THEN proxyOption
    ELSE IF proxyOption.kind = "object" THEN ProxyConfigToUrl(proxyOption.cfg)
    ELSE GetProxyFromEnvironment(e, node, targetUrl)

\* Mutant of ResolveProxyUrl: a proxy found in the environment wins over a
\* ProxyConfig object.
ResolveProxyUrl_EnvOverObject(e, node, targetUrl, proxyOption) ==
    IF proxyOption.kind = "false" THEN Undefined
    ELSE IF proxyOption.kind = "string" THEN proxyOption
    ELSE IF /\ proxyOption.kind = "object"
            /\ ~Truthy(GetProxyFromEnvironment(e, node, targetUrl))
    THEN ProxyConfigToUrl(proxyOption.cfg)
    ELSE GetProxyFromEnvironment(e, node, targetUrl)

\* Mutant of ResolveProxyUrl: a proxy found in the environment wins over a
\* proxy URL string.
ResolveProxyUrl_EnvOverString(e, node, targetUrl, proxyOption) ==
    IF proxyOption.kind = "false" THEN Undefined
    ELSE IF /\ proxyOption.kind = "string"
            /\ ~Truthy(GetProxyFromEnvironment(e, node, targetUrl))
    THEN proxyOption
    ELSE IF proxyOption.kind = "object" THEN ProxyConfigToUrl(proxyOption.cfg)
    ELSE GetProxyFromEnvironment(e, node, targetUrl)

\* Mutant of ResolveProxyUrl: the target URL is validated before the option
\* is looked at.
ResolveProxyUrl_ValidatesTarget(e, node, targetUrl, proxyOption) ==
    IF ~ParseURL(targetUrl).ok THEN ThrowInvalidURL
    ELSE IF proxyOption.kind = "false" THEN Undefined
    ELSE IF proxyOption.kind = "string" THEN proxyOption
    ELSE IF proxyOption.kind = "object" THEN ProxyConfigToUrl(proxyOption.cfg)
    ELSE GetProxyFromEnvironment(e, node, targetUrl)

\* resolveProxyUrl(targetUrl, proxyOption)
ResolveProxyUrl(e, node, targetUrl, proxyOption) ==
    IF proxyOption.kind = "false" THEN Undefined
    ELSE IF proxyOption.kind = "string" THEN proxyOption
    ELSE IF proxyOption.kind = "object" THEN ProxyConfigToUrl(proxyOption.cfg)
    ELSE GetProxyFromEnvironment(e, node, targetUrl)

-----------------------------------------------------------------------------
(* Inputs *)

ProxyA == <<"h","t","t","p",":","/","/","p",":","1">>
ProxyB == <<"h","t","t","p",":","/","/","q",":","2">>
\* No scheme: new URL and new ProxyAgent reject it.
BadProxy == <<"p">>

\* Values the proxy variables take: empty, and two different proxies.
ProxyValues == {Str(<<>>), Str(ProxyA), Str(ProxyB)}

\* Values NO_PROXY and no_proxy take in Spec: empty, a wildcard pattern
\* matching b.a, and a bare pattern matching d.
NoProxyValues == {Str(<<>>), Str(<<"*",".","a">>), Str(<<"d">>)}

EnvValues(name) ==
    IF name \in {"NO_PROXY", "no_proxy"} THEN NoProxyValues ELSE ProxyValues

HttpsBA == <<"h","t","t","p","s",":","/","/","b",".","a">>
HttpsUpperBA == <<"H","T","T","P","S",":","/","/","B",".","A","/","v">>
HttpsD == <<"h","t","t","p","s",":","/","/","d">>
HttpBA == <<"h","t","t","p",":","/","/","b",".","a">>
HttpD == <<"h","t","t","p",":","/","/","d",":","8","0">>
FtpD == <<"f","t","p",":","/","/","d">>
WssBA == <<"w","s","s",":","/","/","b",".","a">>
\* No scheme: new URL throws.
NotAUrl == <<"b",".","a">>

TargetUrls == {HttpsBA, HttpsUpperBA, HttpsD, HttpBA, HttpD, FtpD, WssBA, NotAUrl}

\* Hostnames handed to shouldBypassProxy in Spec.
TargetHosts == { <<"b",".","a">>, <<"B",".","A">>, <<"a">>, <<"d">> }

ConfigPlain == [host |-> <<"p">>, port |-> 8080,
                protocol |-> Undefined, auth |-> Undefined]
ConfigFull == [host |-> <<"p">>, port |-> 8080,
               protocol |-> Str(<<"h","t","t","p","s">>),
               auth |-> Str(<<"u",":","x">>)]
ProxyConfigs == {ConfigPlain, ConfigFull}

\* ProxyConfig objects handed to proxyConfigToUrl in SpecToURL: the fields are
\* not validated, so an empty host, a host with a space and ports outside
\* 1..65535 are among them, and the optional fields may be absent or empty.
ConfigHosts == { <<"p">>, <<>>, <<"p", " ", "q">> }
ConfigPorts == {0, 80, 8080, 65536}
ConfigProtocols == {Undefined, Str(<<>>), Str(<<"h","t","t","p">>), Str(<<"h","t","t","p","s">>)}
ConfigAuths == {Undefined, Str(<<>>), Str(<<"u",":","x">>)}
AllProxyConfigs ==
    [host : ConfigHosts, port : ConfigPorts, protocol : ConfigProtocols, auth : ConfigAuths]

\* proxyOption: absent, false, a URL string (the empty string is one), an object.
ProxyOptions ==
    {Undefined, False, Str(ProxyA), Str(<<>>)} \cup {Obj(c) : c \in ProxyConfigs}

\* Hostnames and NO_PROXY values enumerated in SpecBypass.
HostChars == {"a", "A", "."}
NoProxyChars == {"a", "A", ".", "*", ",", " "}
\* Hostnames that end with "." followed by a pattern beginning with *.
StarHosts == { <<".", "*">>, <<".", "*", "a">>, <<"a", ".", "*">> }
Hostnames == StrsUpTo(HostChars, MaxHostLen) \cup StarHosts
NoProxyStrings == StrsUpTo(NoProxyChars, MaxNoProxyLen)

\* Proxy URLs handed to createProxyAgent.
AgentProxyUrls == {ProxyA, ProxyB, BadProxy}

-----------------------------------------------------------------------------
(* State machine *)

NoCall == [op |-> "none"]

AgentIds == 1..MaxAgentCalls
IdleAgentCall == [pc |-> "idle", proxyUrl |-> <<>>, ret |-> "pending", agent |-> 0]

TypeOK ==
    /\ hasProcessEnv \in BOOLEAN
    /\ undiciAvailable \in BOOLEAN
    /\ DOMAIN env = EnvNames
    /\ \A n \in EnvNames : env[n].kind \in {"undefined", "string"}
    /\ call.op \in {"none", "resolveProxyUrl", "getProxyFromEnvironment",
                    "shouldBypassProxy", "proxyConfigToUrl"}
    /\ ret.kind \in {"undefined", "string", "throw", "true", "false"}
    /\ DOMAIN agentCalls = AgentIds
    /\ \A i \in AgentIds : agentCalls[i].pc \in {"idle", "import", "done"}

InitIdle ==
    /\ call = NoCall
    /\ ret = Undefined
    /\ agentCalls = [i \in AgentIds |-> IdleAgentCall]
    /\ agents = <<>>
    /\ warnings = [i \in AgentIds |-> 0]
    /\ history = <<>>

\* A fresh process, in Node.js or in a runtime without process.env.
Init ==
    /\ hasProcessEnv \in BOOLEAN
    /\ env = EmptyEnv
    /\ undiciAvailable = TRUE
    /\ InitIdle

AgentUnchanged == UNCHANGED <<undiciAvailable, agentCalls, agents, warnings, history>>

\* process.env[name] = value, between calls of the core
SetEnv(name, value) ==
    /\ call = NoCall
    /\ hasProcessEnv
    /\ env' = [env EXCEPT ![name] = value]
    /\ UNCHANGED <<hasProcessEnv, call, ret>>
    /\ AgentUnchanged

\* delete process.env[name]
DeleteEnv(name) ==
    /\ call = NoCall
    /\ hasProcessEnv
    /\ env[name] # Undefined
    /\ env' = [env EXCEPT ![name] = Undefined]
    /\ UNCHANGED <<hasProcessEnv, call, ret>>
    /\ AgentUnchanged

\* Mutant of Resolve: the proxy found is exported to the environment as
\* https_proxy.
Resolve_ExportsProxy(targetUrl, proxyOption) ==
    /\ call = NoCall
    /\ call' = [op |-> "resolveProxyUrl", targetUrl |-> targetUrl,
                proxyOption |-> proxyOption]
    /\ ret' = ResolveProxyUrl(env, hasProcessEnv, targetUrl, proxyOption)
    /\ env' = IF ret'.kind = "string" THEN [env EXCEPT !["https_proxy"] = ret'] ELSE env
    /\ UNCHANGED hasProcessEnv
    /\ AgentUnchanged

\* A call of resolveProxyUrl(targetUrl, proxyOption)
Resolve(targetUrl, proxyOption) ==
    /\ call = NoCall
    /\ call' = [op |-> "resolveProxyUrl", targetUrl |-> targetUrl,
                proxyOption |-> proxyOption]
    /\ ret' = ResolveProxyUrl(env, hasProcessEnv, targetUrl, proxyOption)
    /\ UNCHANGED <<hasProcessEnv, env>>
    /\ AgentUnchanged

\* A call of getProxyFromEnvironment(targetUrl)
FromEnvironment(targetUrl) ==
    /\ call = NoCall
    /\ call' = [op |-> "getProxyFromEnvironment", targetUrl |-> targetUrl]
    /\ ret' = GetProxyFromEnvironment(env, hasProcessEnv, targetUrl)
    /\ UNCHANGED <<hasProcessEnv, env>>
    /\ AgentUnchanged

\* A call of shouldBypassProxy(hostname)
ShouldBypass(hostname) ==
    /\ call = NoCall
    /\ call' = [op |-> "shouldBypassProxy", hostname |-> hostname]
    /\ ret' = Bool(ShouldBypassProxy(env, hasProcessEnv, hostname))
    /\ UNCHANGED <<hasProcessEnv, env>>
    /\ AgentUnchanged

\* A call of proxyConfigToUrl(config)
ToURL(config) ==
    /\ call = NoCall
    /\ call' = [op |-> "proxyConfigToUrl", config |-> config]
    /\ ret' = ProxyConfigToUrl(config)
    /\ UNCHANGED <<hasProcessEnv, env>>
    /\ AgentUnchanged

\* The synchronous call completes: its caller takes the result and goes on.
\* Because the functions are synchronous, no environment write and no other
\* call of them happens between a call and its completion.
Return ==
    /\ call # NoCall
    /\ call' = NoCall
    /\ ret' = Undefined
    /\ UNCHANGED <<hasProcessEnv, env>>
    /\ AgentUnchanged

Next ==
    \/ \E n \in EnvNames : \E v \in EnvValues(n) : SetEnv(n, v)
    \/ \E n \in EnvNames : DeleteEnv(n)
    \/ \E u \in TargetUrls : \E o \in ProxyOptions : Resolve(u, o)
    \/ \E u \in TargetUrls : FromEnvironment(u)
    \/ \E h \in TargetHosts : ShouldBypass(h)
    \/ \E c \in ProxyConfigs : ToURL(c)
    \/ Return

Spec == Init /\ [][Next]_vars

-----------------------------------------------------------------------------
(* Bypass matching on enumerated inputs *)

\* A Node.js process in which one of NO_PROXY, no_proxy holds any string of
\* NoProxyStrings, or neither is set; or a runtime without process.env.
InitBypass ==
    /\ \/ /\ hasProcessEnv = TRUE
          /\ \E n \in {"NO_PROXY", "no_proxy"} : \E v \in NoProxyStrings :
                env = [EmptyEnv EXCEPT ![n] = Str(v)]
       \/ /\ hasProcessEnv \in BOOLEAN
          /\ env = EmptyEnv
    /\ undiciAvailable = TRUE
    /\ InitIdle

NextBypass ==
    \/ \E h \in Hostnames : ShouldBypass(h)
    \/ Return

SpecBypass == InitBypass /\ [][NextBypass]_vars

-----------------------------------------------------------------------------
(* A bypass list of one pattern, with a proxy set *)

\* NO_PROXY values without separator or blank: one pattern, or empty.
PatternChars == {"a", "A", ".", "*"}
SinglePatterns == StrsUpTo(PatternChars, MaxNoProxyLen)

\* The https URL of a host.
HttpsUrlOf(hostname) == <<"h","t","t","p","s",":","/","/">> \o hostname

\* A Node.js process with NO_PROXY set to one pattern and HTTPS_PROXY set or
\* not.
InitPattern ==
    /\ hasProcessEnv = TRUE
    /\ \E p \in SinglePatterns : \E v \in {Undefined, Str(ProxyA)} :
          env = [EmptyEnv EXCEPT !["NO_PROXY"] = Str(p), !["HTTPS_PROXY"] = v]
    /\ undiciAvailable = TRUE
    /\ InitIdle

NextPattern ==
    \/ \E h \in Hostnames : ShouldBypass(h)
    \/ \E h \in Hostnames : Resolve(HttpsUrlOf(h), Undefined)
    \/ Return

SpecPattern == InitPattern /\ [][NextPattern]_vars

-----------------------------------------------------------------------------
(* Bypass lists of several entries *)

\* NO_PROXY values made of short entries and commas.
ListChars == {"a", ".", "*", ","}
PatternLists == StrsUpTo(ListChars, MaxNoProxyLen)

\* A Node.js process with NO_PROXY set to a list.
InitList ==
    /\ hasProcessEnv = TRUE
    /\ \E v \in PatternLists : env = [EmptyEnv EXCEPT !["NO_PROXY"] = Str(v)]
    /\ undiciAvailable = TRUE
    /\ InitIdle

NextList ==
    \/ \E h \in Hostnames : ShouldBypass(h)
    \/ Return

SpecList == InitList /\ [][NextList]_vars

-----------------------------------------------------------------------------
(* Environment updates between calls, with the results kept *)

\* The variables the NO_PROXY test harness relies on.
SequenceEnvNames == {"HTTPS_PROXY", "NO_PROXY"}

\* The value the harness sets (or restores) for a variable.
SequenceEnvValue(name) ==
    IF name = "NO_PROXY" THEN Str(<<"*", ".", "a">>) ELSE Str(ProxyA)

\* The synchronous call completes and its caller keeps the result, together
\* with the call and the environment it was made in.
ReturnRecorded ==
    /\ call # NoCall
    /\ Len(history) < MaxHistory
    /\ history' = Append(history, [env |-> env, call |-> call, ret |-> ret])
    /\ call' = NoCall
    /\ ret' = Undefined
    /\ UNCHANGED <<hasProcessEnv, env, undiciAvailable, agentCalls, agents, warnings>>

NextSequence ==
    \/ \E n \in SequenceEnvNames : SetEnv(n, SequenceEnvValue(n))
    \/ \E n \in SequenceEnvNames : DeleteEnv(n)
    \/ Resolve(HttpsBA, Undefined)
    \/ ShouldBypass(<<"b", ".", "a">>)
    \/ ReturnRecorded

SpecSequence == Init /\ [][NextSequence]_vars

-----------------------------------------------------------------------------
(* proxyConfigToUrl on enumerated ProxyConfig objects *)

NextToURL ==
    \/ \E c \in AllProxyConfigs : ToURL(c)
    \/ Return

SpecToURL == Init /\ [][NextToURL]_vars

-----------------------------------------------------------------------------
(* createProxyAgent: an async function with one suspension point *)

\* new ProxyAgent(proxyUrl) of undici throws when the URL does not parse.
ProxyAgentConstructorThrows(proxyUrl) == ~ParseURL(proxyUrl).ok

\* Mutant of TryImportAndConstruct: no catch around the import, so a rejected
\* import fails the invocation.
TryImportAndConstruct_NoCatch(imported, proxyUrl) ==
    IF ~imported THEN [ret |-> "throw", warned |-> FALSE]
    ELSE IF ProxyAgentConstructorThrows(proxyUrl)
    THEN [ret |-> "undefined", warned |-> TRUE]
    ELSE [ret |-> "agent", warned |-> FALSE]

\* The try/catch of createProxyAgent once the import has settled:
\* what the invocation returns, and whether it called console.warn.
TryImportAndConstruct(imported, proxyUrl) ==
    IF imported /\ ~ProxyAgentConstructorThrows(proxyUrl)
    THEN [ret |-> "agent", warned |-> FALSE]
    ELSE [ret |-> "undefined", warned |-> TRUE]

\* The invocations are numbered in the order they start.
NextAgentId(id) ==
    /\ agentCalls[id].pc = "idle"
    /\ \A j \in AgentIds : j < id => agentCalls[j].pc # "idle"

\* Mutant of CreateProxyAgent: no isNodeEnvironment() test at entry, so the
\* import is attempted in every runtime.
CreateProxyAgent_NoEntryCheck(id, proxyUrl) ==
    /\ NextAgentId(id)
    /\ agentCalls' = [agentCalls EXCEPT ![id] =
            [pc |-> "import", proxyUrl |-> proxyUrl, ret |-> "pending", agent |-> 0]]
    /\ UNCHANGED <<hasProcessEnv, env, undiciAvailable, call, ret, agents, warnings,
                   history>>

\* createProxyAgent(proxyUrl) is called: it returns undefined at once outside
\* Node.js, and otherwise suspends at `await import('undici')`.
CreateProxyAgent(id, proxyUrl) ==
    /\ NextAgentId(id)
    /\ agentCalls' = [agentCalls EXCEPT ![id] =
            IF ~IsNodeEnvironment(hasProcessEnv)
            THEN [pc |-> "done", proxyUrl |-> proxyUrl, ret |-> "undefined", agent |-> 0]
            ELSE [pc |-> "import", proxyUrl |-> proxyUrl, ret |-> "pending", agent |-> 0]]
    /\ UNCHANGED <<hasProcessEnv, env, undiciAvailable, call, ret, agents, warnings,
                   history>>

\* Mutant of Resume: instances are cached by proxy URL, so an invocation whose
\* URL already has an instance gets that one.
Resume_SharedAgent(id, imported) ==
    LET out == TryImportAndConstruct(imported, agentCalls[id].proxyUrl)
        same == {k \in 1..Len(agents) : agents[k] = agentCalls[id].proxyUrl}
        reuse == out.ret = "agent" /\ same # {}
    IN  /\ agentCalls[id].pc = "import"
        /\ agents' = IF out.ret = "agent" /\ ~reuse
                     THEN Append(agents, agentCalls[id].proxyUrl) ELSE agents
        /\ agentCalls' = [agentCalls EXCEPT ![id] =
                [pc |-> "done", proxyUrl |-> agentCalls[id].proxyUrl, ret |-> out.ret,
                 agent |-> IF reuse THEN CHOOSE k \in same : TRUE
                           ELSE IF out.ret = "agent" THEN Len(agents) + 1 ELSE 0]]
        /\ warnings' = [warnings EXCEPT ![id] = @ + (IF out.warned THEN 1 ELSE 0)]
        /\ UNCHANGED <<hasProcessEnv, env, undiciAvailable, call, ret, history>>

\* The invocation resumes after its import settled.
Resume(id, imported) ==
    LET out == TryImportAndConstruct(imported, agentCalls[id].proxyUrl)
    IN  /\ agentCalls[id].pc = "import"
        /\ agents' = IF out.ret = "agent"
                     THEN Append(agents, agentCalls[id].proxyUrl) ELSE agents
        /\ agentCalls' = [agentCalls EXCEPT ![id] =
                [pc |-> "done", proxyUrl |-> agentCalls[id].proxyUrl, ret |-> out.ret,
                 agent |-> IF out.ret = "agent" THEN Len(agents) + 1 ELSE 0]]
        /\ warnings' = [warnings EXCEPT ![id] = @ + (IF out.warned THEN 1 ELSE 0)]
        /\ UNCHANGED <<hasProcessEnv, env, undiciAvailable, call, ret, history>>

\* import('undici') resolved with the module.
ImportFulfilled(id) == undiciAvailable /\ Resume(id, TRUE)

\* import('undici') rejected: the package is not installed.
ImportRejected(id) == ~undiciAvailable /\ Resume(id, FALSE)

InitAgent ==
    /\ hasProcessEnv \in BOOLEAN
    /\ env = EmptyEnv
    /\ undiciAvailable \in BOOLEAN
    /\ InitIdle

NextAgent ==
    \/ \E id \in AgentIds : \E u \in AgentProxyUrls : CreateProxyAgent(id, u)
    \/ \E id \in AgentIds : ImportFulfilled(id)
    \/ \E id \in AgentIds : ImportRejected(id)

SpecAgent == InitAgent /\ [][NextAgent]_vars

-----------------------------------------------------------------------------
(* Calls of several requests in flight at once *)

\* Synchronous calls, createProxyAgent invocations suspended at their import,
\* and environment updates by the rest of the program, in any order.
NextInterleaved ==
    \/ \E n \in SequenceEnvNames : SetEnv(n, SequenceEnvValue(n))
    \/ \E n \in SequenceEnvNames : DeleteEnv(n)
    \/ Resolve(HttpsBA, Undefined)
    \/ FromEnvironment(HttpsBA)
    \/ ShouldBypass(<<"b", ".", "a">>)
    \/ ToURL(ConfigPlain)
    \/ Return
    \/ \E id \in AgentIds : \E u \in AgentProxyUrls : CreateProxyAgent(id, u)
    \/ \E id \in AgentIds : ImportFulfilled(id)
    \/ \E id \in AgentIds : ImportRejected(id)

SpecInterleaved == InitAgent /\ [][NextInterleaved]_vars

-----------------------------------------------------------------------------
(* Properties *)

\* The call in progress is resolveProxyUrl with this kind of proxyOption.
ResolveCalled(kind) == call.op = "resolveProxyUrl" /\ call.proxyOption.kind = kind

\* The call in progress reads the environment for its target URL:
\* getProxyFromEnvironment, or resolveProxyUrl with the option absent.
EnvLookupCalled ==
    \/ call.op = "getProxyFromEnvironment"
    \/ ResolveCalled("undefined")

\* The hostname new URL gives for the target of the call in progress.
TargetHostname == ParseURL(call.targetUrl).hostname

\* C1: resolveProxyUrl(targetUrl, false) returns undefined for every target
\* URL and every state of the proxy variables.
C1_DisabledYieldsNone ==
    ResolveCalled("false") => ret = Undefined

\* Reached: proxy: false while the environment alone would give a proxy.
C1_Witness ==
    /\ ResolveCalled("false")
    /\ call.targetUrl = HttpsD
    /\ env["HTTPS_PROXY"] = Str(ProxyA)
    /\ env["HTTP_PROXY"] = Str(ProxyB)
    /\ GetProxyFromEnvironment(env, hasProcessEnv, call.targetUrl) = Str(ProxyA)
    /\ ret = Undefined

\* C2: a string proxyOption is returned exactly as given, whatever the
\* target URL, the bypass list and the proxy variables are.
C2_StringReturnedVerbatim ==
    ResolveCalled("string") =>
        /\ ret.kind = "string"
        /\ ret.val = call.proxyOption.val

\* Reached: an explicit proxy for a host NO_PROXY bypasses, with another
\* proxy in HTTPS_PROXY.
C2_Witness ==
    /\ ResolveCalled("string")
    /\ call.proxyOption = Str(ProxyA)
    /\ call.targetUrl = HttpsBA
    /\ env["NO_PROXY"] = Str(<<"*",".","a">>)
    /\ ShouldBypassProxy(env, hasProcessEnv, TargetHostname)
    /\ env["HTTPS_PROXY"] = Str(ProxyB)
    /\ ret = Str(ProxyA)

\* C3: a ProxyConfig object resolves to proxyConfigToUrl of it, whatever the
\* target URL, the bypass list and the proxy variables are.
C3_ObjectResolvesToUrl ==
    ResolveCalled("object") =>
        /\ ret.kind = "string"
        /\ ret = ProxyConfigToUrl(call.proxyOption.cfg)

\* Reached: a ProxyConfig for a host NO_PROXY bypasses, with a proxy in
\* HTTPS_PROXY; the result is "http://p:8080".
C3_Witness ==
    /\ ResolveCalled("object")
    /\ call.proxyOption = Obj(ConfigPlain)
    /\ call.targetUrl = HttpsBA
    /\ ShouldBypassProxy(env, hasProcessEnv, TargetHostname)
    /\ env["HTTPS_PROXY"] = Str(ProxyB)
    /\ ret = Str(<<"h","t","t","p",":","/","/","p",":","8","0","8","0">>)

\* C4: with the option absent, a target whose hostname shouldBypassProxy
\* accepts gets undefined, whatever the proxy variables hold.
C4_BypassShortCircuits ==
    (/\ EnvLookupCalled
     /\ ParseURL(call.targetUrl).ok
     /\ ShouldBypassProxy(env, hasProcessEnv, TargetHostname))
        => ret = Undefined

\* Reached: NO_PROXY=*.a, target https://b.a, HTTPS_PROXY set, option absent.
C4_Witness ==
    /\ ResolveCalled("undefined")
    /\ call.targetUrl = HttpsBA
    /\ env["NO_PROXY"] = Str(<<"*",".","a">>)
    /\ env["HTTPS_PROXY"] = Str(ProxyA)
    /\ ret = Undefined

\* The value shouldBypassProxy splits: NO_PROXY, or no_proxy when NO_PROXY is
\* unset or empty.
NoProxyInEffect == Or(env["NO_PROXY"], env["no_proxy"])

\* The entries of the bypass list in effect, trimmed, the empty ones dropped.
BypassList ==
    IF hasProcessEnv /\ Truthy(NoProxyInEffect)
    THEN SelectSeq(NoProxyPatterns(NoProxyInEffect.val), LAMBDA p : p # <<>>)
    ELSE <<>>

\* Pattern p has the form *.D
IsStarDot(p) == StartsWith(p, <<"*", ".">>)

\* D reads as a domain: it is not empty and begins and ends with a letter.
IsDomain(d) == d # <<>> /\ IsAlpha(d[1]) /\ IsAlpha(d[Len(d)])

\* C5 as stated: with a pattern *.D (D a domain) in the bypass list, every
\* hostname ending with D is bypassed, the bare host D included.
C5_Original_StarDotMatchesBareDomain ==
    call.op = "shouldBypassProxy" =>
        \A i \in 1..Len(BypassList) :
            (/\ IsStarDot(BypassList[i])
             /\ IsDomain(Substring(BypassList[i], 2))
             /\ EndsWith(call.hostname, Substring(BypassList[i], 2)))
                => ret = True

\* C5 as amended: with a pattern *.D in the bypass list, every hostname ending
\* with .D (the dot included) is bypassed; the bare host D is not matched by
\* *.D, so a list holding only *.D does not bypass it.
C5_StarDotMatchesSubdomainsOnly ==
    call.op = "shouldBypassProxy" =>
        /\ \A i \in 1..Len(BypassList) :
              (IsStarDot(BypassList[i]) /\ EndsWith(call.hostname, Substring(BypassList[i], 1)))
                  => ret = True
        /\ (/\ Len(BypassList) = 1
            /\ IsStarDot(BypassList[1])
            /\ ToLowerCase(call.hostname) = ToLowerCase(Substring(BypassList[1], 2)))
              => ret = False

\* Reached: NO_PROXY=*.a, shouldBypassProxy("a.a") is true.
C5_Witness ==
    /\ call.op = "shouldBypassProxy"
    /\ env["NO_PROXY"] = Str(<<"*", ".", "a">>)
    /\ call.hostname = <<"a", ".", "a">>
    /\ ret = True

\* C6: when the bypass list is the single pattern *S, shouldBypassProxy(H) is
\* true exactly when lower-cased H ends with lower-cased S, by plain suffix
\* comparison with no label boundary.
C6_StarIsPlainSuffix ==
    (/\ call.op = "shouldBypassProxy"
     /\ hasProcessEnv
     /\ Truthy(NoProxyInEffect)
     /\ Len(NoProxyPatterns(NoProxyInEffect.val)) = 1
     /\ StartsWith(NoProxyPatterns(NoProxyInEffect.val)[1], <<"*">>))
        => LET S == Substring(NoProxyPatterns(NoProxyInEffect.val)[1], 1)
           IN  (ret = True) <=> EndsWith(ToLowerCase(call.hostname), ToLowerCase(S))

\* Reached: NO_PROXY=*a bypasses the hostname aa (no dot before the suffix).
C6_Witness ==
    /\ call.op = "shouldBypassProxy"
    /\ env["NO_PROXY"] = Str(<<"*", "a">>)
    /\ call.hostname = <<"a", "a">>
    /\ ret = True

\* C7: in Node.js, when import('undici') fails, createProxyAgent returns
\* undefined for any valid proxy URL, does not fail, and warns once.
C7_LoadFailureYieldsNone ==
    \A id \in AgentIds :
        (/\ agentCalls[id].pc = "done"
         /\ hasProcessEnv
         /\ ~undiciAvailable
         /\ ParseURL(agentCalls[id].proxyUrl).ok)
            => /\ agentCalls[id].ret = "undefined"
               /\ warnings[id] = 1

\* Reached: undici is missing, createProxyAgent("http://p:1") completed with
\* undefined and one warning.
C7_Witness ==
    /\ hasProcessEnv
    /\ ~undiciAvailable
    /\ agentCalls[1].pc = "done"
    /\ agentCalls[1].proxyUrl = ProxyA
    /\ agentCalls[1].ret = "undefined"
    /\ warnings[1] = 1

\* C8 as stated: when undici loads and new ProxyAgent(proxyUrl) throws, the
\* invocation fails with that error: it does not return undefined and does
\* not emit the warning.
C8_ConstructionFailurePropagates ==
    \A id \in AgentIds :
        (/\ agentCalls[id].pc = "done"
         /\ hasProcessEnv
         /\ undiciAvailable
         /\ ProxyAgentConstructorThrows(agentCalls[id].proxyUrl))
            => /\ agentCalls[id].ret = "throw"
               /\ warnings[id] = 0

\* The result the call in progress would give in environment e.
ResultIn(e) ==
    CASE call.op = "resolveProxyUrl" ->
            ResolveProxyUrl(e, hasProcessEnv, call.targetUrl, call.proxyOption)
      [] call.op = "getProxyFromEnvironment" ->
            GetProxyFromEnvironment(e, hasProcessEnv, call.targetUrl)
      [] call.op = "shouldBypassProxy" ->
            Bool(ShouldBypassProxy(e, hasProcessEnv, call.hostname))

\* The upper-case and lower-case names of each variable.
CasePairs == { <<"HTTPS_PROXY", "https_proxy">>, <<"HTTP_PROXY", "http_proxy">>,
               <<"NO_PROXY", "no_proxy">> }

\* C9 as stated: a value set only under the lower-case name gives the same
\* result as that value set only under the upper-case name, and when both
\* names hold non-empty values the upper-case one is used.
C9_CaseVariantsEquivalent ==
    call.op \in {"resolveProxyUrl", "getProxyFromEnvironment", "shouldBypassProxy"} =>
        \A p \in CasePairs :
            /\ (env[p[1]] = Undefined /\ env[p[2]] # Undefined)
                  => ret = ResultIn([env EXCEPT ![p[1]] = env[p[2]], ![p[2]] = Undefined])
            /\ (Truthy(env[p[1]]) /\ Truthy(env[p[2]]))
                  => ret = ResultIn([env EXCEPT ![p[2]] = Undefined])

\* The same for non-empty values only, which holds: the two names differ in
\* result only through the empty string.
C9_NonEmptyCaseVariantsEquivalent ==
    call.op \in {"resolveProxyUrl", "getProxyFromEnvironment", "shouldBypassProxy"} =>
        \A p \in CasePairs :
            /\ (env[p[1]] = Undefined /\ Truthy(env[p[2]]))
                  => ret = ResultIn([env EXCEPT ![p[1]] = env[p[2]], ![p[2]] = Undefined])
            /\ (Truthy(env[p[1]]) /\ Truthy(env[p[2]]))
                  => ret = ResultIn([env EXCEPT ![p[2]] = Undefined])

\* C10: for an https target that is not bypassed, with the option absent, the
\* result is HTTPS_PROXY or else https_proxy whenever one of them is non-empty,
\* and HTTP_PROXY or else http_proxy only when both are unset or empty.
C10_HttpsSpecificFirst ==
    (/\ EnvLookupCalled
     /\ hasProcessEnv
     /\ ParseURL(call.targetUrl).ok
     /\ ParseURL(call.targetUrl).protocol = <<"h","t","t","p","s",":">>
     /\ ~ShouldBypassProxy(env, hasProcessEnv, TargetHostname))
        => /\ Truthy(env["HTTPS_PROXY"]) => ret = env["HTTPS_PROXY"]
           /\ (~Truthy(env["HTTPS_PROXY"]) /\ Truthy(env["https_proxy"]))
                 => ret = env["https_proxy"]
           /\ (~Truthy(env["HTTPS_PROXY"]) /\ ~Truthy(env["https_proxy"]))
                 => /\ ret \in {env["HTTP_PROXY"], env["http_proxy"]}
                    /\ Truthy(env["HTTP_PROXY"]) => ret = env["HTTP_PROXY"]
                    /\ (~Truthy(env["HTTP_PROXY"]) /\ Truthy(env["http_proxy"]))
                          => ret = env["http_proxy"]

\* Reached: https_proxy wins over HTTP_PROXY for an https target.
C10_Witness ==
    /\ call.op = "getProxyFromEnvironment"
    /\ call.targetUrl = HttpsD
    /\ env["HTTPS_PROXY"] = Undefined
    /\ env["https_proxy"] = Str(ProxyA)
    /\ env["HTTP_PROXY"] = Str(ProxyB)
    /\ ret = Str(ProxyA)

\* The target URL of the call in progress parses and has this scheme.
TargetProtocolIs(protocol) ==
    /\ ParseURL(call.targetUrl).ok
    /\ ParseURL(call.targetUrl).protocol = protocol

\* C11: for an http target with the option absent, only HTTP_PROXY and
\* http_proxy are consulted: the result is undefined or the value of one of
\* these two, it is undefined when neither is set, and it is what the same
\* call returns with HTTPS_PROXY and https_proxy unset.
C11_HttpTargetIgnoresHttpsVars ==
    (EnvLookupCalled /\ TargetProtocolIs(<<"h","t","t","p",":">>)) =>
        /\ ret \in {Undefined, env["HTTP_PROXY"], env["http_proxy"]}
        /\ (env["HTTP_PROXY"] = Undefined /\ env["http_proxy"] = Undefined)
              => ret = Undefined
        /\ ret = ResultIn([env EXCEPT !["HTTPS_PROXY"] = Undefined,
                                      !["https_proxy"] = Undefined])

\* Reached: an http target looked up while only the HTTPS-specific variables
\* are set, and nothing is bypassed.
C11_Witness ==
    /\ hasProcessEnv
    /\ EnvLookupCalled
    /\ call.targetUrl = HttpBA
    /\ env["HTTPS_PROXY"] = Str(ProxyA)
    /\ env["https_proxy"] = Str(ProxyB)
    /\ env["HTTP_PROXY"] = Undefined
    /\ env["http_proxy"] = Undefined
    /\ NoProxyInEffect = Undefined
    /\ ret = Undefined

\* C12 as stated: getProxyFromEnvironment(targetUrl), and resolveProxyUrl with
\* the option absent, throw the Invalid URL error whenever targetUrl does not
\* parse, in every runtime and every state of the environment.
C12_Original_InvalidUrlAlwaysRaised ==
    (EnvLookupCalled /\ ~ParseURL(call.targetUrl).ok) => ret = ThrowInvalidURL

\* C12, amended: where process.env is available, getProxyFromEnvironment and
\* resolveProxyUrl with the option absent throw the Invalid URL error whenever
\* targetUrl does not parse, whatever the values of the proxy variables; the
\* error is never turned into undefined.
C12_InvalidUrlRaisedInNode ==
    (EnvLookupCalled /\ hasProcessEnv /\ ~ParseURL(call.targetUrl).ok)
        => ret = ThrowInvalidURL

\* Reached: an unparseable target resolved from the environment in Node.js
\* while a proxy and a bypass list are set.
C12_Witness ==
    /\ hasProcessEnv
    /\ ResolveCalled("undefined")
    /\ call.targetUrl = NotAUrl
    /\ env["HTTPS_PROXY"] = Str(ProxyA)
    /\ env["NO_PROXY"] = Str(<<"*", ".", "a">>)
    /\ ret = ThrowInvalidURL

\* The environments that differ from the current one in at most one variable,
\* and the environment with no proxy variable set.
OtherEnvs ==
    {EmptyEnv} \cup
    { [env EXCEPT ![n] = v] : n \in EnvNames, v \in {Undefined} \cup ProxyValues \cup NoProxyValues }

\* C13: when proxyOption is false, a string or an object, the result of
\* resolveProxyUrl does not depend on the environment: the same call gives the
\* same result with no variable set and with any one variable changed, so any
\* two environments give the same result.
C13_ExplicitOptionIgnoresEnvironment ==
    (call.op = "resolveProxyUrl" /\ call.proxyOption.kind \in {"false", "string", "object"})
        => \A e \in OtherEnvs : ret = ResultIn(e)

\* Reached: an explicit object resolved while the environment holds a
\* different proxy and a bypass list that matches the target.
C13_Witness ==
    /\ hasProcessEnv
    /\ ResolveCalled("object")
    /\ call.targetUrl = HttpsBA
    /\ env["HTTPS_PROXY"] = Str(ProxyB)
    /\ env["http_proxy"] = Str(ProxyA)
    /\ env["NO_PROXY"] = Str(<<"*", ".", "a">>)
    /\ ret = Str(<<"h","t","t","p","s",":","/","/","u",":","x","@","p",":","8","0","8","0">>)

\* The first truthy value among the variables names of e, else the last one.
FirstTruthy(e, names) ==
    IF names = <<>> THEN Undefined
    ELSE IF Truthy(e[names[1]]) \/ Len(names) = 1 THEN e[names[1]]
    ELSE IF Truthy(e[names[2]]) \/ Len(names) = 2 THEN e[names[2]]
    ELSE IF Truthy(e[names[3]]) \/ Len(names) = 3 THEN e[names[3]]
    ELSE e[names[4]]

\* Whether hostname is bypassed, from the values of environment e alone.
ExpectedBypass(e, hostname) ==
    LET noProxy == FirstTruthy(e, <<"NO_PROXY", "no_proxy">>)
    IN  /\ hasProcessEnv
        /\ Truthy(noProxy)
        /\ \E i \in 1..Len(NoProxyPatterns(noProxy.val)) :
              PatternMatches(ToLowerCase(hostname), NoProxyPatterns(noProxy.val)[i])

\* The proxy for targetUrl, from the values of environment e alone.
ExpectedProxy(e, targetUrl) ==
    LET url == ParseURL(targetUrl)
    IN  IF ~hasProcessEnv THEN Undefined
        ELSE IF ~url.ok THEN ThrowInvalidURL
        ELSE IF ExpectedBypass(e, url.hostname) THEN Undefined
        ELSE IF url.protocol = <<"h","t","t","p","s",":">>
        THEN FirstTruthy(e, <<"HTTPS_PROXY", "https_proxy", "HTTP_PROXY", "http_proxy">>)
        ELSE IF url.protocol = <<"h","t","t","p",":">>
        THEN FirstTruthy(e, <<"HTTP_PROXY", "http_proxy">>)
        ELSE Undefined

\* What the call c gives when it is computed from the values of e alone.
ExpectedFrom(e, c) ==
    CASE c.op = "shouldBypassProxy" -> Bool(ExpectedBypass(e, c.hostname))
      [] c.op = "getProxyFromEnvironment" -> ExpectedProxy(e, c.targetUrl)
      [] c.op = "resolveProxyUrl" ->
            IF c.proxyOption = Undefined THEN ExpectedProxy(e, c.targetUrl)
            ELSE ResolveProxyUrl(EmptyEnv, hasProcessEnv, c.targetUrl, c.proxyOption)

\* C14: nothing is cached across calls: in every sequence of environment
\* updates and calls, the result of each call, of the call in progress and of
\* every earlier one, is the result computed from the values the environment
\* held at that call alone.
C14_NoStateAcrossCalls ==
    /\ \A i \in 1..Len(history) :
          history[i].ret = ExpectedFrom(history[i].env, history[i].call)
    /\ call # NoCall => ret = ExpectedFrom(env, call)

\* Reached: the same resolution made three times, bypassed with NO_PROXY set,
\* proxied after NO_PROXY was deleted, and bypassed again once it was restored.
C14_Witness ==
    /\ Len(history) = 3
    /\ \A i \in 1..3 :
          /\ history[i].call = [op |-> "resolveProxyUrl", targetUrl |-> HttpsBA,
                                proxyOption |-> Undefined]
          /\ history[i].env["HTTPS_PROXY"] = Str(ProxyA)
    /\ history[1].env["NO_PROXY"] = Str(<<"*", ".", "a">>)
    /\ history[1].ret = Undefined
    /\ history[2].env["NO_PROXY"] = Undefined
    /\ history[2].ret = Str(ProxyA)
    /\ history[3].env = history[1].env
    /\ history[3].ret = Undefined

\* The decimal digits of the ports of ConfigPorts, written out.
PortDigits(port) ==
    CASE port = 0 -> <<"0">>
      [] port = 80 -> <<"8","0">>
      [] port = 8080 -> <<"8","0","8","0">>
      [] port = 65536 -> <<"6","5","5","3","6">>

\* C15: proxyConfigToUrl(config) is protocol + "://" + (auth + "@" when auth
\* is given and not empty) + host + ":" + port, with protocol "http" when it
\* is omitted or empty; host and port are copied as they are, whatever they
\* hold. {host:"p",port:8080} gives "http://p:8080" and
\* {host:"p",port:8080,protocol:"https",auth:"u:x"} gives "https://u:x@p:8080".
C15_ToUrlFormat ==
    call.op = "proxyConfigToUrl" =>
        LET config == call.config
            protocol == IF config.protocol \in {Undefined, Str(<<>>)}
                        THEN <<"h","t","t","p">> ELSE config.protocol.val
            auth == IF config.auth \in {Undefined, Str(<<>>)}
                    THEN <<>> ELSE config.auth.val \o <<"@">>
        IN  /\ ret = Str(protocol \o <<":","/","/">> \o auth \o config.host
                         \o <<":">> \o PortDigits(config.port))
            /\ config = ConfigPlain =>
                  ret = Str(<<"h","t","t","p",":","/","/","p",":","8","0","8","0">>)
            /\ config = ConfigFull =>
                  ret = Str(<<"h","t","t","p","s",":","/","/","u",":","x","@",
                              "p",":","8","0","8","0">>)

\* Reached: a config with credentials, a host that is no hostname and a port
\* beyond 65535, rendered as it is.
C15_Witness ==
    /\ call.op = "proxyConfigToUrl"
    /\ call.config = [host |-> <<"p", " ", "q">>, port |-> 65536,
                      protocol |-> Str(<<"h","t","t","p","s">>),
                      auth |-> Str(<<"u",":","x">>)]
    /\ ret = Str(<<"h","t","t","p","s",":","/","/","u",":","x","@",
                   "p"," ","q",":","6","5","5","3","6">>)

\* The invocations of createProxyAgent that returned a ProxyAgent.
SuccessfulAgentCalls == {i \in AgentIds : agentCalls[i].ret = "agent"}

\* C16: interleaved invocations of createProxyAgent share nothing: N
\* successful invocations hold N distinct ProxyAgent instances, also when
\* their proxy URLs are equal, and the instance of each invocation was
\* constructed from the proxyUrl argument of that invocation.
C16_OneAgentPerInvocation ==
    /\ \A i \in SuccessfulAgentCalls :
          /\ agentCalls[i].agent \in 1..Len(agents)
          /\ agents[agentCalls[i].agent] = agentCalls[i].proxyUrl
    /\ \A i, j \in SuccessfulAgentCalls :
          i # j => agentCalls[i].agent # agentCalls[j].agent
    /\ Len(agents) = Cardinality(SuccessfulAgentCalls)

\* Reached: three invocations with the same proxy URL, all in flight at once
\* (the first to start resumed after the second), each with its own instance.
C16_Witness ==
    /\ \A i \in 1..3 : agentCalls[i].ret = "agent" /\ agentCalls[i].proxyUrl = ProxyA
    /\ agentCalls[1].agent = 3
    /\ agentCalls[2].agent = 1
    /\ agentCalls[3].agent = 2
    /\ agents = <<ProxyA, ProxyA, ProxyA>>

\* The result of the synchronous call in progress when it runs alone in the
\* current environment.
ResultAlone ==
    IF call.op = "proxyConfigToUrl" THEN ProxyConfigToUrl(call.config)
    ELSE ResultIn(env)

\* What a createProxyAgent invocation returns when it runs alone.
AgentResultAlone(proxyUrl) ==
    IF hasProcessEnv /\ undiciAvailable /\ ParseURL(proxyUrl).ok
    THEN "agent" ELSE "undefined"

\* C17: no operation of the core writes the environment: every step that
\* starts, resumes or completes a call leaves process.env (and the runtime it
\* lives in) unchanged, and with calls of several requests interleaved each
\* call gives the result it gives alone in the same environment.
C17_CallsWriteNothingShared ==
    /\ [][(call' # call \/ agentCalls' # agentCalls)
              => UNCHANGED <<env, hasProcessEnv, undiciAvailable>>]_vars
    /\ [](/\ call # NoCall => ret = ResultAlone
          /\ \A i \in AgentIds : agentCalls[i].pc = "done" =>
                agentCalls[i].ret = AgentResultAlone(agentCalls[i].proxyUrl))

\* Reached: a resolution from the environment gives the proxy while one
\* createProxyAgent invocation is suspended at its import and another one has
\* completed.
C17_Witness ==
    /\ ResolveCalled("undefined")
    /\ env["HTTPS_PROXY"] = Str(ProxyA)
    /\ env["NO_PROXY"] = Undefined
    /\ ret = Str(ProxyA)
    /\ agentCalls[1].pc = "import"
    /\ agentCalls[2].pc = "done"
    /\ agentCalls[2].ret = "agent"

\* C18: in a runtime without process.env, createProxyAgent(proxyUrl) returns
\* undefined at entry: no invocation is ever suspended at the import, none
\* warns, none fails and no ProxyAgent is constructed, also for a proxyUrl
\* that does not parse.
C18_NoEnvironmentNoLoad ==
    ~hasProcessEnv =>
        /\ agents = <<>>
        /\ \A i \in AgentIds :
              /\ agentCalls[i].pc # "import"
              /\ agentCalls[i].pc = "done" => agentCalls[i].ret = "undefined"
              /\ warnings[i] = 0

\* Reached: outside Node.js, in a runtime where the import would succeed,
\* invocations with a malformed and with a well-formed proxy URL have both
\* returned undefined without a warning.
C18_Witness ==
    /\ ~hasProcessEnv
    /\ undiciAvailable
    /\ agentCalls[1] = [pc |-> "done", proxyUrl |-> BadProxy, ret |-> "undefined", agent |-> 0]
    /\ agentCalls[2] = [pc |-> "done", proxyUrl |-> ProxyA, ret |-> "undefined", agent |-> 0]
    /\ warnings[1] = 0
    /\ warnings[2] = 0

\* The reference matcher: one rule per pattern, chosen by its first character,
\* after exact equality; h and p are lower-cased by the caller.
ReferenceMatches(h, p) ==
    \/ h = p
    \/ CASE StartsWith(p, <<"*">>) -> EndsWith(h, Substring(p, 1))
         [] StartsWith(p, <<".">>) -> EndsWith(h, p)
         [] OTHER -> EndsWith(h, <<".">> \o p)

\* The reference matcher over the bypass list in effect.
ReferenceBypass(hostname) ==
    \E i \in 1..Len(BypassList) :
        ReferenceMatches(ToLowerCase(hostname), ToLowerCase(BypassList[i]))

\* C19: for every hostname and every NO_PROXY value shouldBypassProxy returns
\* what the reference matcher returns, in which "hostname ends with . +
\* pattern" is tested only for patterns that begin with neither * nor . ;
\* that the code tests it for every pattern changes no result.
C19_SameAsReferenceMatcher ==
    call.op = "shouldBypassProxy" => ret = Bool(ReferenceBypass(call.hostname))

\* Reached: the hostname ends with "." + pattern for a pattern that begins
\* with *, so the code's last test fires where the reference matcher does not
\* apply it, and both bypass.
C19_Witness ==
    /\ call.op = "shouldBypassProxy"
    /\ env["NO_PROXY"] = Str(<<"*", "a">>)
    /\ call.hostname = <<".", "*", "a">>
    /\ EndsWith(call.hostname, <<".">> \o BypassList[1])
    /\ ret = True

\* The bypass list in effect is the single pattern .D, for some D.
SingleDotPattern == Len(BypassList) = 1 /\ StartsWith(BypassList[1], <<".">>)

\* C20: when the bypass list is the single pattern .D, shouldBypassProxy(H)
\* is true exactly when H ends with .D (dot included, letter case ignored),
\* so the bare host D is not bypassed; and resolveProxyUrl with the option
\* absent, for an https target with HTTPS_PROXY set, returns undefined exactly
\* when the target's hostname ends with .D and HTTPS_PROXY otherwise.
C20_DotPatternMatchesSubdomainsOnly ==
    SingleDotPattern =>
        LET dotD == ToLowerCase(BypassList[1])
        IN  /\ call.op = "shouldBypassProxy" =>
                /\ (ret = True) <=> EndsWith(ToLowerCase(call.hostname), dotD)
                /\ ToLowerCase(call.hostname) = Substring(dotD, 1) => ret = False
            /\ (/\ ResolveCalled("undefined")
                /\ TargetProtocolIs(<<"h","t","t","p","s",":">>)
                /\ Truthy(env["HTTPS_PROXY"]))
                => ret = IF EndsWith(TargetHostname, dotD)
                         THEN Undefined ELSE env["HTTPS_PROXY"]

\* Reached: with NO_PROXY=.a and HTTPS_PROXY set, the resolution for
\* https://a.a is bypassed.
C20_Witness ==
    /\ ResolveCalled("undefined")
    /\ call.targetUrl = HttpsUrlOf(<<"a", ".", "a">>)
    /\ env["NO_PROXY"] = Str(<<".", "a">>)
    /\ env["HTTPS_PROXY"] = Str(ProxyA)
    /\ ret = Undefined

\* The bypass list in effect is a single pattern that begins with neither *
\* nor a dot.
SingleBarePattern ==
    /\ Len(BypassList) = 1
    /\ ~StartsWith(BypassList[1], <<"*">>)
    /\ ~StartsWith(BypassList[1], <<".">>)

\* C21: when the bypass list is the single bare pattern P, shouldBypassProxy(H)
\* is true exactly when H equals P or H ends with "." + P (letter case
\* ignored): a hostname that merely ends with P is not bypassed.
C21_BarePatternMatchesHostAndSubdomains ==
    (SingleBarePattern /\ call.op = "shouldBypassProxy") =>
        LET P == ToLowerCase(BypassList[1])
            H == ToLowerCase(call.hostname)
        IN  (ret = True) <=> (H = P \/ EndsWith(H, <<".">> \o P))

\* Reached: NO_PROXY=a does not bypass the hostname aa, which ends with the
\* pattern but not with "." + pattern.
C21_Witness ==
    /\ call.op = "shouldBypassProxy"
    /\ env["NO_PROXY"] = Str(<<"a">>)
    /\ SingleBarePattern
    /\ call.hostname = <<"a", "a">>
    /\ ret = False

\* The string holds nothing but commas and blanks.
OnlySeparators(s) == \A i \in 1..Len(s) : s[i] \in {",", " "}

\* The entries of a list joined with commas.
RECURSIVE JoinComma(_)
JoinComma(entries) ==
    IF entries = <<>> THEN <<>>
    ELSE IF Len(entries) = 1 THEN entries[1]
    ELSE entries[1] \o <<",">> \o JoinComma(Tail(entries))

\* The entry without the blanks before its first and after its last non-blank
\* character.
Unpadded(entry) ==
    LET inked == {i \in 1..Len(entry) : entry[i] # " "}
    IN  IF inked = {} THEN <<>>
        ELSE SubSeq(entry, CHOOSE i \in inked : \A j \in inked : i <= j,
                           CHOOSE i \in inked : \A j \in inked : i >= j)

\* The value of NO_PROXY in effect with the blanks around each entry removed.
NoProxyTrimmed ==
    LET entries == SplitComma(NoProxyInEffect.val)
    IN  JoinComma([i \in 1..Len(entries) |-> Unpadded(entries[i])])

\* C22: shouldBypassProxy returns false for every hostname when NO_PROXY is
\* absent or empty and when it holds only commas and blanks (every entry is
\* empty after trimming, and an empty entry matches nothing, not even a
\* hostname that is empty or ends with a dot); and the blanks around a
\* non-empty entry do not count: the result is the one for the list with every
\* entry trimmed.
C22_EmptyEntriesNeverMatch ==
    call.op = "shouldBypassProxy" =>
        /\ (\/ ~hasProcessEnv
            \/ ~Truthy(NoProxyInEffect)
            \/ OnlySeparators(NoProxyInEffect.val)) => ret = False
        /\ (hasProcessEnv /\ Truthy(NoProxyInEffect)) =>
              ret = Bool(ShouldBypassProxy([EmptyEnv EXCEPT !["NO_PROXY"] = Str(NoProxyTrimmed)],
                                           TRUE, call.hostname))

\* Reached: NO_PROXY holds two entries that are empty after trimming, and a
\* hostname ending with a dot is not bypassed.
C22_Witness ==
    /\ call.op = "shouldBypassProxy"
    /\ env["NO_PROXY"] = Str(<<" ", ",", " ">>)
    /\ call.hostname = <<"a", ".">>
    /\ ret = False

\* The string with every lower-case letter replaced by its upper-case one.
ToUpperCase(s) ==
    [i \in 1..Len(s) |->
        IF s[i] \in LowerSet
        THEN UpperChars[CHOOSE k \in 1..Len(LowerChars) : LowerChars[k] = s[i]]
        ELSE s[i]]

\* The environment with the letters of NO_PROXY and no_proxy re-cased by f.
RecasedEnv(f(_)) ==
    [n \in EnvNames |->
        IF n \in {"NO_PROXY", "no_proxy"} /\ env[n].kind = "string"
        THEN Str(f(env[n].val)) ELSE env[n]]

\* C23: bypass matching ignores letter case in the hostname and in the
\* patterns: shouldBypassProxy(H) under a list L gives what the all-lower-case
\* spelling of H gives under the all-lower-case spelling of L, and what the
\* all-upper-case spelling of H gives under the all-upper-case spelling of L;
\* all re-casings of H and L share these spellings, so they give one result.
C23_MatchingIgnoresCase ==
    call.op = "shouldBypassProxy" =>
        /\ ret = Bool(ShouldBypassProxy(RecasedEnv(ToLowerCase), hasProcessEnv,
                                        ToLowerCase(call.hostname)))
        /\ ret = Bool(ShouldBypassProxy(RecasedEnv(ToUpperCase), hasProcessEnv,
                                        ToUpperCase(call.hostname)))

\* Reached: a pattern and a hostname that differ in letter case only where
\* they must agree, and the hostname is bypassed.
C23_Witness ==
    /\ call.op = "shouldBypassProxy"
    /\ env["NO_PROXY"] = Str(<<".", "A">>)
    /\ call.hostname = <<"A", ".", "a">>
    /\ ret = True

\* C24: for a target URL that parses and whose scheme is neither http nor
\* https, getProxyFromEnvironment (also reached through resolveProxyUrl with
\* the option absent) returns undefined in every state of the proxy variables
\* and of the bypass list.
C24_OtherSchemesYieldNone ==
    (/\ EnvLookupCalled
     /\ ParseURL(call.targetUrl).ok
     /\ ParseURL(call.targetUrl).protocol \notin
            { <<"h","t","t","p",":">>, <<"h","t","t","p","s",":">> })
        => ret = Undefined

\* Reached: a wss target looked up in Node.js while all four proxy variables
\* are set and nothing is bypassed.
C24_Witness ==
    /\ hasProcessEnv
    /\ call.op = "getProxyFromEnvironment"
    /\ call.targetUrl = WssBA
    /\ \A n \in {"HTTPS_PROXY", "https_proxy", "HTTP_PROXY", "http_proxy"} :
          env[n] = Str(ProxyA)
    /\ NoProxyInEffect = Undefined
    /\ ret = Undefined

\* C25 as stated: an empty-string variable is treated like an unset one, so
\* the lookup gives what it gives with every empty variable unset, and the
\* result of getProxyFromEnvironment (also through resolveProxyUrl with the
\* option absent) is never the empty string.
C25_EmptyTreatedAsUnset ==
    EnvLookupCalled =>
        /\ ret # Str(<<>>)
        /\ ret = ResultIn([n \in EnvNames |->
                              IF env[n] = Str(<<>>) THEN Undefined ELSE env[n]])

\* shouldBypassProxy(hostname) in a Node.js process whose NO_PROXY is the
\* given entries joined with commas.
BypassedUnder(entries, hostname) ==
    ShouldBypassProxy([EmptyEnv EXCEPT !["NO_PROXY"] = Str(JoinComma(entries))],
                      TRUE, hostname)

\* Entries that may be appended to a list.
FurtherEntries == { <<>>, <<"a">>, <<".">>, <<"*">>, <<"A", ".">> }

\* C26: shouldBypassProxy is true exactly when one of the non-empty entries,
\* taken as a list of its own, matches the hostname, so the result is a
\* function of the set of entries: exchanging the first two entries, rotating
\* the list (which together give every permutation) or repeating an entry
\* does not change it, and appending an entry never turns true into false.
C26_DependsOnSetOfPatterns ==
    (call.op = "shouldBypassProxy" /\ hasProcessEnv /\ Truthy(NoProxyInEffect)) =>
        LET entries == SplitComma(NoProxyInEffect.val)
            n == Len(entries)
            h == call.hostname
        IN  /\ (ret = True) <=>
                  \E i \in 1..Len(BypassList) : BypassedUnder(<<BypassList[i]>>, h)
            /\ n >= 2 => ret = Bool(BypassedUnder(
                  <<entries[2], entries[1]>> \o SubSeq(entries, 3, n), h))
            /\ ret = Bool(BypassedUnder(Append(Tail(entries), entries[1]), h))
            /\ \A i \in 1..n : ret = Bool(BypassedUnder(Append(entries, entries[i]), h))
            /\ ret = True => \A x \in FurtherEntries : BypassedUnder(Append(entries, x), h)

\* Reached: a list of two entries of which only the second matches the
\* hostname.
C26_Witness ==
    /\ call.op = "shouldBypassProxy"
    /\ env["NO_PROXY"] = Str(<<".", ",", "a">>)
    /\ call.hostname = <<"a">>
    /\ ret = True

\* C27: in a runtime without process.env, getProxyFromEnvironment and
\* resolveProxyUrl with the option absent return undefined for every target
\* URL, one that does not parse included (no Invalid URL error is thrown
\* there), and shouldBypassProxy returns false for every hostname.
C27_NoEnvironmentYieldsNone ==
    ~hasProcessEnv =>
        /\ EnvLookupCalled => ret = Undefined
        /\ call.op = "shouldBypassProxy" => ret = False

\* Reached: outside Node.js a target that does not parse is resolved from the
\* environment, and undefined comes back.
C27_Witness ==
    /\ ~hasProcessEnv
    /\ ResolveCalled("undefined")
    /\ call.targetUrl = NotAUrl
    /\ ~ParseURL(call.targetUrl).ok
    /\ ret = Undefined

\* C28: when proxyOption is false, a string (the empty one included) or an
\* object, resolveProxyUrl does not parse the target URL: it throws for no
\* target, gives for a target that does not parse what it gives for one that
\* does, and returns the empty string for the empty-string option in every
\* state of the environment.
C28_ExplicitOptionNeverParsesTarget ==
    (call.op = "resolveProxyUrl" /\ call.proxyOption.kind \in {"false", "string", "object"})
        => /\ ret.kind # "throw"
           /\ ret = ResolveProxyUrl(env, hasProcessEnv, HttpsD, call.proxyOption)
           /\ call.proxyOption = Str(<<>>) => ret = Str(<<>>)

\* Reached: the empty-string option with a target that does not parse, in
\* Node.js with a proxy in the environment.
C28_Witness ==
    /\ hasProcessEnv
    /\ ResolveCalled("string")
    /\ call.proxyOption = Str(<<>>)
    /\ call.targetUrl = NotAUrl
    /\ env["HTTPS_PROXY"] = Str(ProxyA)
    /\ ret = Str(<<>>)

====
